---- MODULE Spec2Model ----
(***************************************************************************)
(* Verification model of the Quran video composer helpers:                 *)
(*   utils.get_words_with_timestamps   (word timeline over a verse range)  *)
(*   LLM_utils.get_video_suggestions   (model call + XML suggestion parse) *)
(*   utils.get_audio_file_paths / download_file,                           *)
(*   pexel_utils.PexelsVideoAPI.download_video   (temporary downloads)     *)
(*   pexel_utils.select_video          (stock video selection)             *)
(* Each helper is a separate specification over the same variables; the    *)
(* variables of the other helpers stay at their initial value.             *)
(* Times are integers: the timeline counts whole ticks, the parser counts  *)
(* tenths of a second (3.2 s = 32).                                        *)
(***************************************************************************)
EXTENDS Integers, Sequences, FiniteSets, TLC

(***************************************************************************)
(* Bounds of the model.                                                    *)
(***************************************************************************)
MaxAya == 2
MaxWords == 1
MaxSegments == 2
MaxTime == 2
MaxDuration == 3
MaxItems == 2
MaxUrls == 2
MaxVideoFiles == 2
MaxResults == 2
MaxVideoDuration == 2

\* Python's None where a number is expected (timestamp_data[...]["duration"]).
None == -1

VARIABLES
    \* ---- get_words_with_timestamps ----
    pc,           \* position in the function
    aya_start,    \* argument
    aya_end,      \* argument
    aya_number,   \* loop variable of `for aya_number in range(...)`
    result,       \* list of word_info records
    offset,       \* running offset
    audio_urls,   \* list of audio urls collected for download
    absent,       \* set of <<aya, store>>: ayas found absent from a store when read
    exc,          \* exception that escaped the function ("" if none)
    consistent,   \* history: every aya processed so far had segments in time
                  \* order and a duration that is None or >= its last emitted end
    aya_log       \* history: what the last aya found in both stores looked like

tl_vars == <<pc, aya_start, aya_end, aya_number, result, offset, audio_urls,
             absent, exc, consistent, aya_log>>

VARIABLES
    \* ---- get_video_suggestions ----
    stage,        \* position in the function
    span,         \* <<T_start, T_end>> of verse_words
    llm_calls,    \* number of calls of make_openai_request
    llm_output,   \* text returned by the model
    suggestions,  \* list returned by get_video_suggestions
    error         \* exception that escaped the function ("" if none)

sg_vars == <<stage, span, llm_calls, llm_output, suggestions, error>>

VARIABLES
    \* ---- get_audio_file_paths, download_file, download_video ----
    dl_pc,        \* "idle", or "audio" inside the loop of get_audio_file_paths
    queue,        \* urls of get_audio_file_paths not yet visited
    audio_files,  \* list built by get_audio_file_paths
    disk,         \* state of every file path: "absent", "partial" or "complete"
    last          \* what the last download operation did

dl_vars == <<dl_pc, queue, audio_files, disk, last>>

VARIABLES
    \* ---- select_video ----
    sv_pc,        \* "call", "returned" or "raised"
    sv_videos,    \* results["videos"] of the search
    sv_duration,  \* argument duration: minimum duration or None
    sv_method,    \* argument selection_method
    sv_offset,    \* argument offset: an index or None
    sv_ret,       \* returned value: a video id or None
    sv_error      \* exception that escaped ("" if none)

sv_vars == <<sv_pc, sv_videos, sv_duration, sv_method, sv_offset, sv_ret, sv_error>>

vars == <<tl_vars, sg_vars, dl_vars, sv_vars>>

not_tl == <<sg_vars, dl_vars, sv_vars>>
not_sg == <<tl_vars, dl_vars, sv_vars>>
not_dl == <<tl_vars, sg_vars, sv_vars>>
not_sv == <<tl_vars, sg_vars, dl_vars>>

(***************************************************************************)
(* Data stores.  A store key is read at most once per run (once per aya),  *)
(* so the content of the stores is drawn when the key is read.             *)
(***************************************************************************)
AllWords == <<"w1", "w2", "w3", "w4">>

\* aya_text.split(): the words of an aya, n of them
SplitWords(n) == SubSeq(AllWords, 1, n)

\* a timestamp segment [word_position, local_start, local_end]
Segments ==
    { s \in (1..(MaxWords + 1)) \X (0..MaxTime) \X (0..MaxTime) : s[2] < s[3] }

SegmentLists == UNION { [1..n -> Segments] : n \in 0..MaxSegments }

Durations == {None} \cup (1..MaxDuration)

\* timestamp_data[timestamp_key]
TimestampEntries ==
    [segments : SegmentLists, audio_url : {"url"}, duration : Durations]

\* translation_data restricted to one aya: the word positions that have a key
TranslationKeys == SUBSET (1..(MaxWords + 1))

(***************************************************************************)
(* Python list indexing words[word_index] with a 0-based, possibly         *)
(* negative index; "IndexError" when out of range.                         *)
(***************************************************************************)
PyIndexOk(list, idx) == idx < Len(list) /\ idx >= -Len(list)

PyIndex(list, idx) == IF idx >= 0 THEN list[idx + 1] ELSE list[Len(list) + idx + 1]

(***************************************************************************)
(* The inner loop `for i, segment in enumerate(segments)` of one aya.      *)
(* i is 1-based here.  Returns the exception raised ("" if none) and the   *)
(* result list after the loop.                                             *)
(***************************************************************************)
RECURSIVE MatchSegments(_, _, _, _, _, _, _)
MatchSegments(words, segments, trKeys, aya, off, i, acc) ==
    IF i > Len(segments) \/ i - 1 >= Len(words)
    THEN [exc |-> "", result |-> acc]
    ELSE LET segment == segments[i]
             word_index == segment[1] - 1
         IN  IF ~PyIndexOk(words, word_index)
             THEN [exc |-> "IndexError", result |-> acc]
             ELSE IF segment[1] \notin trKeys
             THEN [exc |-> "KeyError", result |-> acc]
             ELSE MatchSegments(words, segments, trKeys, aya, off, i + 1,
                     Append(acc, [word |-> PyIndex(words, word_index),
                                  aya |-> aya,
                                  word_position |-> segment[1],
                                  start |-> segment[2] + off,
                                  end |-> segment[3] + off]))

\* variant of AdvanceOffset without the fallback: an unknown duration adds nothing
AdvanceOffset_NoFallback(off, duration, res) ==
    IF duration # None THEN off + duration ELSE off

\* offset += duration if duration is not None else result[-1]["end"]
AdvanceOffset(off, duration, res) ==
    IF duration # None THEN off + duration ELSE off + res[Len(res)].end

(***************************************************************************)
(* History predicate on the store content of one aya: the segments that    *)
(* are emitted are in time order and the declared duration, when known,    *)
(* reaches the end of the last emitted one.                                *)
(***************************************************************************)
EmittedCount(words, segments) ==
    IF Len(segments) < Len(words) THEN Len(segments) ELSE Len(words)

AyaConsistent(words, entry) ==
    LET n == EmittedCount(words, entry.segments)
    IN  /\ \A i \in 1..(n - 1) : entry.segments[i][3] <= entry.segments[i + 1][2]
        /\ entry.duration # None =>
               \A i \in 1..n : entry.segments[i][3] <= entry.duration

\* value of aya_log before any aya was found in both stores
NoAya ==
    [aya |-> 0, words |-> 0, segments |-> 0, emitted |-> 0, duration |-> None,
     before |-> 0, where |-> ""]

(***************************************************************************)
(* get_words_with_timestamps                                               *)
(***************************************************************************)
\* one of the three json files cannot be loaded: print and return []
LoadFails ==
    /\ UNCHANGED not_tl
    /\ pc = "load"
    /\ pc' = "returned"
    /\ UNCHANGED <<aya_start, aya_end, aya_number, result, offset, audio_urls,
                   absent, exc, consistent, aya_log>>

LoadStores ==
    /\ UNCHANGED not_tl
    /\ pc = "load"
    /\ pc' = "loop"
    /\ aya_number' = aya_start
    /\ UNCHANGED <<aya_start, aya_end, result, offset, audio_urls, absent,
                   exc, consistent, aya_log>>

\* KeyError on quran_data[surah_str][str(aya_number)]: print and continue
AyaNotInQuranData ==
    /\ UNCHANGED not_tl
    /\ pc = "loop"
    /\ aya_number <= aya_end
    /\ absent' = absent \cup {<<aya_number, "quran">>}
    /\ aya_number' = aya_number + 1
    /\ UNCHANGED <<pc, aya_start, aya_end, result, offset, audio_urls, exc,
                   consistent, aya_log>>

\* variant of TimestampsNotFound that has already collected the audio url
TimestampsNotFound_AddsUrl ==
    /\ UNCHANGED not_tl
    /\ pc = "loop"
    /\ aya_number <= aya_end
    /\ absent' = absent \cup {<<aya_number, "timestamps">>}
    /\ aya_number' = aya_number + 1
    /\ audio_urls' = Append(audio_urls, "url")
    /\ UNCHANGED <<pc, aya_start, aya_end, result, offset, exc, consistent, aya_log>>

\* KeyError on timestamp_data[timestamp_key]: print and continue
TimestampsNotFound ==
    /\ UNCHANGED not_tl
    /\ pc = "loop"
    /\ aya_number <= aya_end
    /\ absent' = absent \cup {<<aya_number, "timestamps">>}
    /\ aya_number' = aya_number + 1
    /\ UNCHANGED <<pc, aya_start, aya_end, result, offset, audio_urls, exc,
                   consistent, aya_log>>

\* the aya is in the text store and in the timestamp store
MatchWords ==
    /\ UNCHANGED not_tl
    /\ pc = "loop"
    /\ aya_number <= aya_end
    /\ \E n \in 0..MaxWords, entry \in TimestampEntries, trKeys \in TranslationKeys :
         LET words == SplitWords(n)
             m == MatchSegments(words, entry.segments, trKeys, aya_number,
                                offset, 1, result)
             \* the aya has no key at all in the translation store
             seen == IF trKeys = {} THEN absent \cup {<<aya_number, "translation">>}
                                    ELSE absent
             log(where) == [aya |-> aya_number, words |-> Len(words),
                            segments |-> Len(entry.segments),
                            emitted |-> Len(m.result) - Len(result),
                            duration |-> entry.duration, before |-> offset,
                            where |-> where]
         IN  IF m.exc # ""
             THEN /\ pc' = "raised"
                  /\ exc' = m.exc
                  /\ absent' = seen
                  /\ aya_log' = log(IF m.exc = "IndexError" THEN "words[word_index]"
                                    ELSE "translation_data[word_key]")
                  /\ UNCHANGED <<aya_number, result, offset, audio_urls, consistent>>
             ELSE IF entry.duration = None /\ m.result = <<>>
             THEN \* result[-1] on an empty list
                  /\ pc' = "raised"
                  /\ exc' = "IndexError"
                  /\ absent' = seen
                  /\ aya_log' = log("result[-1]")
                  /\ UNCHANGED <<aya_number, result, offset, audio_urls, consistent>>
             ELSE /\ result' = m.result
                  /\ audio_urls' = Append(audio_urls, entry.audio_url)
                  /\ offset' = AdvanceOffset(offset, entry.duration, m.result)
                  /\ consistent' = (consistent /\ AyaConsistent(words, entry))
                  /\ aya_number' = aya_number + 1
                  /\ absent' = seen
                  /\ aya_log' = log("")
                  /\ UNCHANGED <<pc, exc>>
    /\ UNCHANGED <<aya_start, aya_end>>

\* after the loop: download, join and export the audio, then return result
JoinAudio ==
    /\ UNCHANGED not_tl
    /\ pc = "loop"
    /\ aya_number > aya_end
    /\ \E ok \in BOOLEAN :
         IF ok THEN pc' = "returned" /\ exc' = exc
               ELSE pc' = "raised" /\ exc' = "AudioError"
    /\ UNCHANGED <<aya_start, aya_end, aya_number, result, offset, audio_urls,
                   absent, consistent, aya_log>>

TimelineNext ==
    \/ LoadFails
    \/ LoadStores
    \/ AyaNotInQuranData
    \/ TimestampsNotFound
    \/ MatchWords
    \/ JoinAudio


(***************************************************************************)
(* Agent output.  The text handed to parse_video_suggestions is a sequence *)
(* of items: stretches of free text and <video> elements, each element     *)
(* with the children it has.  Text is a sequence of characters.            *)
(***************************************************************************)
\* the child is not there: video_elem.find(tag) is None
NoChild == [tag |-> "absent", text |-> <<>>]

\* the child is there without text: video_elem.find(tag).text is None
EmptyChild == [tag |-> "empty", text |-> <<>>]

Child(chars) == [tag |-> "text", text |-> chars]

TextDesert == <<"d", "e", "s", "e", "r", "t">>
TextZero == <<"0">>
TextThreeTwo == <<"3", ".", "2">>
TextFive == <<"5", " ">>
TextAbc == <<"a", "b", "c">>
TextProse == <<"o", "k">>
TextAmpersand == <<"a", "&", "b">>

QueryChildren == {NoChild, EmptyChild, Child(TextDesert)}
StartChildren == {NoChild, EmptyChild, Child(TextZero), Child(TextThreeTwo), Child(TextAbc)}
EndChildren == {NoChild, EmptyChild, Child(TextThreeTwo), Child(TextFive), Child(TextAbc)}

VideoItems ==
    [kind : {"video"}, text : {<<>>}, query : QueryChildren,
     start : StartChildren, end : EndChildren]

TextItems ==
    [kind : {"text"}, text : {TextProse, TextAmpersand}, query : {NoChild},
     start : {NoChild}, end : {NoChild}]

Items == VideoItems \cup TextItems

LlmOutputs == UNION { [1..n -> Items] : n \in 0..MaxItems }

\* the timeline span of verse_words, in tenths of a second
Spans == {<<0, 50>>}

(***************************************************************************)
(* float(text) on decimal literals: surrounding blanks are stripped, an    *)
(* optional sign, digits with at most one point.  The value is in tenths;  *)
(* the literals of the model have at most one digit after the point.       *)
(***************************************************************************)
Digits == <<"0", "1", "2", "3", "4", "5", "6", "7", "8", "9">>

IsDigit(c) == \E d \in 1..10 : Digits[d] = c

DigitValue(c) == (CHOOSE d \in 1..10 : Digits[d] = c) - 1

RECURSIVE Strip(_)
Strip(chars) ==
    IF chars = <<>> THEN chars
    ELSE IF Head(chars) = " " THEN Strip(Tail(chars))
    ELSE IF chars[Len(chars)] = " " THEN Strip(SubSeq(chars, 1, Len(chars) - 1))
    ELSE chars

RECURSIVE DigitsValue(_, _)
DigitsValue(chars, acc) ==
    IF chars = <<>> THEN acc
    ELSE DigitsValue(Tail(chars), acc * 10 + DigitValue(Head(chars)))

AllDigits(chars) == \A i \in 1..Len(chars) : IsDigit(chars[i])

PyFloat(child) ==
    IF child.tag = "empty" THEN [exc |-> "TypeError", value |-> 0]
    ELSE LET stripped == Strip(child.text)
             signed == stripped # <<>> /\ Head(stripped) \in {"+", "-"}
             body == IF signed THEN Tail(stripped) ELSE stripped
             points == { i \in 1..Len(body) : body[i] = "." }
             point == IF points = {} THEN Len(body) + 1
                      ELSE CHOOSE i \in points : \A j \in points : i <= j
             whole == SubSeq(body, 1, point - 1)
             frac == SubSeq(body, point + 1, Len(body))
             tenths == DigitsValue(whole, 0) * 10
                         + (IF frac = <<>> THEN 0 ELSE DigitValue(frac[1]))
         IN  IF /\ AllDigits(whole)
                /\ AllDigits(frac)
                /\ Len(whole) + Len(frac) >= 1
             THEN [exc |-> "",
                   value |-> IF signed /\ Head(stripped) = "-" THEN -tenths ELSE tenths]
             ELSE [exc |-> "ValueError", value |-> 0]

\* ET.fromstring accepts character data without markup characters
WellFormedText(chars) == \A i \in 1..Len(chars) : chars[i] \notin {"&", "<"}

WellFormedXml(output) ==
    \A i \in 1..Len(output) : output[i].kind = "text" => WellFormedText(output[i].text)

\* root.findall(".//video"): the video elements in document order
RECURSIVE FindAllVideo(_)
FindAllVideo(output) ==
    IF output = <<>> THEN <<>>
    ELSE IF Head(output).kind = "video"
         THEN <<Head(output)>> \o FindAllVideo(Tail(output))
         ELSE FindAllVideo(Tail(output))

\* keywords of a query child: its text, None for an empty element
Keywords(child) == IF child.tag = "empty" THEN <<"None">> ELSE child.text

\* variant of ParseVideos that skips an element it cannot convert
RECURSIVE ParseVideos_SkipBad(_, _)
ParseVideos_SkipBad(videos, acc) ==
    IF videos = <<>> THEN [exc |-> "", suggestions |-> acc]
    ELSE LET video_elem == Head(videos)
             start_time == PyFloat(video_elem.start)
             end_time == PyFloat(video_elem.end)
         IN  IF \/ video_elem.query.tag = "absent"
                \/ video_elem.start.tag = "absent" \/ start_time.exc # ""
                \/ video_elem.end.tag = "absent" \/ end_time.exc # ""
             THEN ParseVideos_SkipBad(Tail(videos), acc)
             ELSE ParseVideos_SkipBad(Tail(videos),
                     Append(acc, [keywords |-> Keywords(video_elem.query),
                                  start_time |-> start_time.value,
                                  end_time |-> end_time.value]))

\* body of the loop `for video_elem in root.findall(".//video")`
RECURSIVE ParseVideos(_, _)
ParseVideos(videos, acc) ==
    IF videos = <<>> THEN [exc |-> "", suggestions |-> acc]
    ELSE LET video_elem == Head(videos)
             start_time == PyFloat(video_elem.start)
             end_time == PyFloat(video_elem.end)
         IN  IF video_elem.query.tag = "absent"
             THEN [exc |-> "AttributeError", suggestions |-> <<>>]
             ELSE IF video_elem.start.tag = "absent"
             THEN [exc |-> "AttributeError", suggestions |-> <<>>]
             ELSE IF start_time.exc # ""
             THEN [exc |-> start_time.exc, suggestions |-> <<>>]
             ELSE IF video_elem.end.tag = "absent"
             THEN [exc |-> "AttributeError", suggestions |-> <<>>]
             ELSE IF end_time.exc # ""
             THEN [exc |-> end_time.exc, suggestions |-> <<>>]
             ELSE ParseVideos(Tail(videos),
                     Append(acc, [keywords |-> Keywords(video_elem.query),
                                  start_time |-> start_time.value,
                                  end_time |-> end_time.value]))

\* parse_video_suggestions: every exception is re-raised to the caller
parse_video_suggestions(output) ==
    IF ~WellFormedXml(output)
    THEN [exc |-> "ParseError", suggestions |-> <<>>]
    ELSE ParseVideos(FindAllVideo(output), <<>>)

(***************************************************************************)
(* get_video_suggestions                                                   *)
(***************************************************************************)
\* make_openai_request returns the text of the model
MakeOpenAIRequest ==
    /\ UNCHANGED not_sg
    /\ stage = "prompt"
    /\ stage' = "parse"
    /\ llm_calls' = llm_calls + 1
    /\ llm_output' \in LlmOutputs
    /\ UNCHANGED <<span, suggestions, error>>

\* variant of MakeOpenAIRequestFails that asks the model again
MakeOpenAIRequestFails_Retry ==
    /\ UNCHANGED not_sg
    /\ stage = "prompt"
    /\ stage' = "prompt"
    /\ llm_calls' = llm_calls + 1
    /\ UNCHANGED <<span, llm_output, suggestions, error>>

\* make_openai_request raises: the exception leaves get_video_suggestions
MakeOpenAIRequestFails ==
    /\ UNCHANGED not_sg
    /\ stage = "prompt"
    /\ stage' = "raised"
    /\ llm_calls' = llm_calls + 1
    /\ error' = "Error making OpenAI request"
    /\ UNCHANGED <<span, llm_output, suggestions>>

\* return parse_video_suggestions(llm_output)
ParseVideoSuggestions ==
    /\ UNCHANGED not_sg
    /\ stage = "parse"
    /\ LET parsed == parse_video_suggestions(llm_output)
       IN  IF parsed.exc = ""
           THEN /\ stage' = "returned"
                /\ suggestions' = parsed.suggestions
                /\ error' = error
           ELSE /\ stage' = "raised"
                /\ suggestions' = suggestions
                /\ error' = "Error parsing video suggestions"
    /\ UNCHANGED <<span, llm_calls, llm_output>>

SuggestNext ==
    \/ MakeOpenAIRequest
    \/ MakeOpenAIRequestFails
    \/ ParseVideoSuggestions

(***************************************************************************)
(* Files on disk.  A path is a directory and a file name, both sequences   *)
(* of strings (their parts).  os.path.exists holds for partial files too.  *)
(***************************************************************************)
NoPath == [dir |-> <<>>, file |-> <<>>]

\* value of `last` before any download operation
NoOperation ==
    [op |-> "none", path |-> NoPath, existed |-> FALSE,
     downloads |-> 0, outcome |-> "none", ret |-> NoPath]

\* audio urls .../<dir>/<name><query>
AudioUrls ==
    { [dir |-> "husary", name |-> "001001.mp3", query |-> ""],
      [dir |-> "husary", name |-> "001002.mp3", query |-> "?v=1"] }

UrlLists == UNION { [1..n -> AudioUrls] : n \in 0..MaxUrls }

VideoIds == {"101"}

\* entries of video_data["video_files"]: quality, width*height, extension of the link
VideoFiles == [quality : {"hd", "sd"}, area : 1..2, ext : {"", ".mov"}]

VideoFileLists == UNION { [1..n -> VideoFiles] : n \in 0..MaxVideoFiles }

\* file_path of get_audio_file_paths: url_parts[-2] and url_parts[-1]
AudioFilePath(url) ==
    [dir |-> <<"temp/audio", url.dir>>, file |-> <<url.name, url.query>>]

\* filepath of download_file without filename: basename(urlparse(url).path)
UrlBasenamePath(url, directory) ==
    [dir |-> directory, file |-> <<url.name, "">>]

\* output_path of download_video
VideoOutputPath(video_id, ext) ==
    [dir |-> <<"temp/video">>,
     file |-> <<"pexels_video_", video_id, IF ext = "" THEN ".mp4" ELSE ext>>]

AllPaths ==
    { AudioFilePath(u) : u \in AudioUrls }
      \cup { UrlBasenamePath(u, <<"temp/audio", u.dir>>) : u \in AudioUrls }
      \cup { VideoOutputPath(v, e) : v \in VideoIds, e \in {"", ".mov"} }

Exists(path) == disk[path] # "absent"

\* download_file: the disk after the transfer.  "ok": the file is written;
\* "refused": the request fails before the file is opened;
\* "broken": the transfer or the write fails after the file was opened.
Outcomes == {"ok", "refused", "broken"}

DownloadFileDisk(d, path, outcome) ==
    IF outcome = "ok" THEN [d EXCEPT ![path] = "complete"]
    ELSE IF outcome = "broken" THEN [d EXCEPT ![path] = "partial"]
    ELSE d

\* download_file: the returned value
DownloadFileReturn(path, outcome) ==
    IF outcome = "ok" THEN path ELSE NoPath

\* variant of DownloadVideoReturn: the path only when download_file returned one
DownloadVideoReturn_Checked(output_path, downloaded) ==
    IF downloaded = NoPath THEN NoPath ELSE output_path

\* download_video: utils.download_file(...) then `return output_path`
DownloadVideoReturn(output_path, downloaded) == output_path

\* the file of the requested quality, else the one of largest area (first of
\* the largest: the reverse sort is stable)
TargetFile(video_files, quality) ==
    LET wanted == { i \in 1..Len(video_files) : video_files[i].quality = quality }
        largest == { i \in 1..Len(video_files) :
                       \A j \in 1..Len(video_files) :
                          video_files[j].area <= video_files[i].area }
        pick(S) == CHOOSE i \in S : \A j \in S : i <= j
    IN  IF wanted # {} THEN video_files[pick(wanted)] ELSE video_files[pick(largest)]

\* get_audio_file_paths(urls) is called
GetAudioFilePaths ==
    /\ UNCHANGED not_dl
    /\ dl_pc = "idle"
    /\ dl_pc' = "audio"
    /\ queue' \in UrlLists
    /\ audio_files' = <<>>
    /\ UNCHANGED <<disk, last>>

\* loop body, os.path.exists(file_path): append file_path
AudioFileExists ==
    /\ UNCHANGED not_dl
    /\ dl_pc = "audio"
    /\ queue # <<>>
    /\ LET file_path == AudioFilePath(Head(queue))
       IN  /\ Exists(file_path)
           /\ audio_files' = Append(audio_files, file_path)
           /\ last' = [op |-> "audio", path |-> file_path, existed |-> TRUE,
                       downloads |-> 0, outcome |-> "none", ret |-> file_path]
    /\ queue' = Tail(queue)
    /\ UNCHANGED <<dl_pc, disk>>

\* loop body, file_path does not exist: append download_file(url, directory_path)
AudioFileDownload ==
    /\ UNCHANGED not_dl
    /\ dl_pc = "audio"
    /\ queue # <<>>
    /\ LET url == Head(queue)
           file_path == AudioFilePath(url)
           written == UrlBasenamePath(url, <<"temp/audio", url.dir>>)
       IN  /\ ~Exists(file_path)
           /\ \E outcome \in Outcomes :
                /\ disk' = DownloadFileDisk(disk, written, outcome)
                /\ audio_files' = Append(audio_files, DownloadFileReturn(written, outcome))
                /\ last' = [op |-> "audio", path |-> file_path, existed |-> FALSE,
                            downloads |-> 1, outcome |-> outcome,
                            ret |-> DownloadFileReturn(written, outcome)]
    /\ queue' = Tail(queue)
    /\ UNCHANGED dl_pc

\* return audio_files
AudioFilesReturn ==
    /\ UNCHANGED not_dl
    /\ dl_pc = "audio"
    /\ queue = <<>>
    /\ dl_pc' = "idle"
    /\ UNCHANGED <<queue, audio_files, disk, last>>

\* download_video: self.get_video raises, or video_files is empty
\* (video_files[0] raises IndexError): print and return None
DownloadVideoFails ==
    /\ UNCHANGED not_dl
    /\ dl_pc = "idle"
    /\ \E video_id \in VideoIds, why \in {"get_video", "no_files"} :
         last' = [op |-> "video", path |-> NoPath, existed |-> FALSE,
                  downloads |-> 0, outcome |-> why, ret |-> NoPath]
    /\ UNCHANGED <<dl_pc, queue, audio_files, disk>>

\* download_video: details fetched, a target file chosen, download_file called
DownloadVideo ==
    /\ UNCHANGED not_dl
    /\ dl_pc = "idle"
    /\ \E video_id \in VideoIds, video_files \in VideoFileLists,
          quality \in {"hd"}, outcome \in Outcomes :
         /\ video_files # <<>>
         /\ LET target_file == TargetFile(video_files, quality)
                output_path == VideoOutputPath(video_id, target_file.ext)
            IN  /\ disk' = DownloadFileDisk(disk, output_path, outcome)
                /\ last' = [op |-> "video", path |-> output_path,
                            existed |-> Exists(output_path),
                            downloads |-> 1, outcome |-> outcome,
                            ret |-> DownloadVideoReturn(output_path,
                                       DownloadFileReturn(output_path, outcome))]
    /\ UNCHANGED <<dl_pc, queue, audio_files>>

DownloadNext ==
    \/ GetAudioFilePaths
    \/ AudioFileExists
    \/ AudioFileDownload
    \/ AudioFilesReturn
    \/ DownloadVideoFails
    \/ DownloadVideo

(***************************************************************************)
(* select_video                                                            *)
(***************************************************************************)
\* results["videos"]: videos with distinct ids
ResultLists ==
    { l \in UNION { [1..n -> [id : 1..MaxResults, duration : 1..MaxVideoDuration]] :
                      n \in 0..MaxResults } :
        \A i, j \in 1..Len(l) : i # j => l[i].id # l[j].id }

Methods == {"best", "random", "offset", "newest"}

\* [video for video in videos if video.get("duration") >= duration]
RECURSIVE FilterDuration(_, _)
FilterDuration(vs, d) ==
    IF vs = <<>> THEN <<>>
    ELSE IF Head(vs).duration >= d
         THEN <<Head(vs)>> \o FilterDuration(Tail(vs), d)
         ELSE FilterDuration(Tail(vs), d)

Candidates == IF sv_duration # None THEN FilterDuration(sv_videos, sv_duration)
              ELSE sv_videos

SvReturn(value) ==
    /\ sv_pc' = "returned"
    /\ sv_ret' = value
    /\ UNCHANGED <<sv_videos, sv_duration, sv_method, sv_offset, sv_error>>

SvRaise(e) ==
    /\ sv_pc' = "raised"
    /\ sv_error' = e
    /\ UNCHANGED <<sv_videos, sv_duration, sv_method, sv_offset, sv_ret>>

\* api.search_videos: response.raise_for_status() raises
SearchFails ==
    /\ UNCHANGED not_sv
    /\ sv_pc = "call"
    /\ SvRaise("HTTPError")

\* if not results.get("videos"): return None
NoVideos ==
    /\ UNCHANGED not_sv
    /\ sv_pc = "call"
    /\ sv_videos = <<>>
    /\ SvReturn(None)

\* if len(videos) == 0: raise ValueError
NoneMatching ==
    /\ UNCHANGED not_sv
    /\ sv_pc = "call"
    /\ sv_videos # <<>>
    /\ Candidates = <<>>
    /\ SvRaise("ValueError")

\* case "best": return videos[0]["id"]
SelectBest ==
    /\ UNCHANGED not_sv
    /\ sv_pc = "call"
    /\ sv_videos # <<>>
    /\ Candidates # <<>>
    /\ sv_method = "best"
    /\ SvReturn(Candidates[1].id)

\* case "random": return random.choice(videos)["id"]
SelectRandom ==
    /\ UNCHANGED not_sv
    /\ sv_pc = "call"
    /\ sv_videos # <<>>
    /\ Candidates # <<>>
    /\ sv_method = "random"
    /\ \E i \in 1..Len(Candidates) : SvReturn(Candidates[i].id)

\* case "offset"
SelectOffset ==
    /\ UNCHANGED not_sv
    /\ sv_pc = "call"
    /\ sv_videos # <<>>
    /\ Candidates # <<>>
    /\ sv_method = "offset"
    /\ IF sv_offset = None THEN SvRaise("ValueError")
       ELSE IF sv_offset >= Len(Candidates) THEN SvReturn(None)
       ELSE SvReturn(Candidates[sv_offset + 1].id)

\* case _: raise ValueError
InvalidMethod ==
    /\ UNCHANGED not_sv
    /\ sv_pc = "call"
    /\ sv_videos # <<>>
    /\ Candidates # <<>>
    /\ sv_method \notin {"best", "random", "offset"}
    /\ SvRaise("ValueError")

SelectNext ==
    \/ SearchFails
    \/ NoVideos
    \/ NoneMatching
    \/ SelectBest
    \/ SelectRandom
    \/ SelectOffset
    \/ InvalidMethod

(***************************************************************************)
(* Specifications                                                          *)
(***************************************************************************)
\* Each specification starts one helper; the others are not running.
InitTimeline ==
    /\ pc = "load"
    /\ aya_start \in 1..MaxAya
    /\ aya_end \in 1..MaxAya
    /\ aya_number = 0
    /\ result = <<>>
    /\ offset = 0
    /\ audio_urls = <<>>
    /\ absent = {}
    /\ exc = ""
    /\ consistent = TRUE
    /\ aya_log = NoAya
    /\ stage = "idle"
    /\ span = <<0, 0>>
    /\ llm_calls = 0
    /\ llm_output = <<>>
    /\ suggestions = <<>>
    /\ error = ""
    /\ dl_pc = "off"
    /\ queue = <<>>
    /\ audio_files = <<>>
    /\ disk = [p \in AllPaths |-> "absent"]
    /\ last = NoOperation
    /\ sv_pc = "off"
    /\ sv_videos = <<>>
    /\ sv_duration = None
    /\ sv_method = "best"
    /\ sv_offset = None
    /\ sv_ret = None
    /\ sv_error = ""

InitSuggest ==
    /\ stage = "prompt"
    /\ span \in Spans
    /\ llm_calls = 0
    /\ llm_output = <<>>
    /\ suggestions = <<>>
    /\ error = ""
    /\ pc = "idle"
    /\ aya_start = 1
    /\ aya_end = 1
    /\ aya_number = 0
    /\ result = <<>>
    /\ offset = 0
    /\ audio_urls = <<>>
    /\ absent = {}
    /\ exc = ""
    /\ consistent = TRUE
    /\ aya_log = NoAya
    /\ dl_pc = "off"
    /\ queue = <<>>
    /\ audio_files = <<>>
    /\ disk = [p \in AllPaths |-> "absent"]
    /\ last = NoOperation
    /\ sv_pc = "off"
    /\ sv_videos = <<>>
    /\ sv_duration = None
    /\ sv_method = "best"
    /\ sv_offset = None
    /\ sv_ret = None
    /\ sv_error = ""

InitDownload ==
    /\ dl_pc = "idle"
    /\ queue = <<>>
    /\ audio_files = <<>>
    /\ disk = [p \in AllPaths |-> "absent"]
    /\ last = NoOperation
    /\ pc = "idle"
    /\ aya_start = 1
    /\ aya_end = 1
    /\ aya_number = 0
    /\ result = <<>>
    /\ offset = 0
    /\ audio_urls = <<>>
    /\ absent = {}
    /\ exc = ""
    /\ consistent = TRUE
    /\ aya_log = NoAya
    /\ stage = "idle"
    /\ span = <<0, 0>>
    /\ llm_calls = 0
    /\ llm_output = <<>>
    /\ suggestions = <<>>
    /\ error = ""
    /\ sv_pc = "off"
    /\ sv_videos = <<>>
    /\ sv_duration = None
    /\ sv_method = "best"
    /\ sv_offset = None
    /\ sv_ret = None
    /\ sv_error = ""

InitSelect ==
    /\ sv_pc = "call"
    /\ sv_videos \in ResultLists
    /\ sv_duration \in {None} \cup (1..(MaxVideoDuration + 1))
    /\ sv_method \in Methods
    /\ sv_offset \in {None} \cup (0..MaxResults)
    /\ sv_ret = None
    /\ sv_error = ""
    /\ pc = "idle"
    /\ aya_start = 1
    /\ aya_end = 1
    /\ aya_number = 0
    /\ result = <<>>
    /\ offset = 0
    /\ audio_urls = <<>>
    /\ absent = {}
    /\ exc = ""
    /\ consistent = TRUE
    /\ aya_log = NoAya
    /\ stage = "idle"
    /\ span = <<0, 0>>
    /\ llm_calls = 0
    /\ llm_output = <<>>
    /\ suggestions = <<>>
    /\ error = ""
    /\ dl_pc = "off"
    /\ queue = <<>>
    /\ audio_files = <<>>
    /\ disk = [p \in AllPaths |-> "absent"]
    /\ last = NoOperation

SpecTimeline == InitTimeline /\ [][TimelineNext]_vars

SpecSuggest == InitSuggest /\ [][SuggestNext]_vars

SpecDownload == InitDownload /\ [][DownloadNext]_vars

SpecSelect == InitSelect /\ [][SelectNext]_vars

(***************************************************************************)
(* Claims on get_words_with_timestamps                                     *)
(***************************************************************************)
\* record[i].end <= record[i+1].start for every adjacent pair
Monotonic(res) ==
    \A i \in 1..(Len(res) - 1) : res[i].end <= res[i + 1].start

\* C1 as stated: whenever a list is returned it is time-monotonic and
\* non-overlapping, whatever the stores hold and whatever the declared
\* duration of an aya is.
C1_MonotonicAnyStore ==
    pc = "returned" => Monotonic(result)

\* C1 amended: whenever a list is returned, and the emitted segments of each
\* aya are in time order in the store, and each declared duration is None or
\* at least the local end of the aya's last emitted segment, the returned
\* records are time-monotonic and non-overlapping, across aya boundaries too.
C1_MonotonicConsistentStore ==
    (pc = "returned" /\ consistent) => Monotonic(result)

\* two ayas were emitted from consistent stores and the list was returned
C1_Witness ==
    /\ pc = "returned"
    /\ consistent
    /\ Len(result) >= 2
    /\ result[1].aya # result[2].aya

\* C3: an aya absent from one of the three stores is skipped; the lookup
\* failure does not escape get_words_with_timestamps.
C3_AbsentAyaSkipped ==
    \A e \in absent : ~(pc = "raised" /\ exc = "KeyError" /\ aya_number = e[1])

\* C11: an aya with more timestamp segments than words emits at most as many
\* records as it has words and drops the rest without an exception of the
\* word lookup, whatever word_positions its segments hold.  (The exceptions
\* of the translation lookup and of the offset fallback belong to C3 and C12.)
C11_TruncationNeverRaises ==
    aya_log.segments > aya_log.words
        => (aya_log.where # "words[word_index]" /\ aya_log.emitted <= aya_log.words)

\* C12: the offset starts at zero and after each processed aya it has grown
\* by the declared duration when that is known; otherwise it is the end of
\* that aya's last emitted word, so that the next aya continues directly after
\* it; an aya that emits no word raises nothing.
C12_RunningOffset ==
    /\ pc = "load" => offset = 0
    /\ aya_log.where # "result[-1]"
    /\ (aya_log.aya # 0 /\ aya_log.where = "" /\ aya_log.duration # None)
          => offset = aya_log.before + aya_log.duration
    /\ (aya_log.aya # 0 /\ aya_log.where = "" /\ aya_log.duration = None
          /\ aya_log.emitted > 0)
          => offset = result[Len(result)].end

\* C13: a step that skips an aya because it is absent from the verse-text
\* store or from the timestamp store leaves the records, the offset and the
\* audio url list as they are, raises nothing and goes on to the next aya.
C13_SkippedAyaChangesNothing ==
    [][(\E e \in absent' \ absent : e[2] \in {"quran", "timestamps"})
          => /\ result' = result
             /\ offset' = offset
             /\ audio_urls' = audio_urls
             /\ pc' = "loop" /\ exc' = ""
             /\ aya_number' = aya_number + 1]_vars

\* an aya was absent from the timestamp store and the records of another
\* aya were returned
C13_Witness ==
    /\ pc = "returned"
    /\ \E e \in absent : e[2] = "timestamps"
    /\ result # <<>>
    /\ Len(audio_urls) = 1

(***************************************************************************)
(* Claims on parse_video_suggestions and get_video_suggestions             *)
(***************************************************************************)
\* the field texts of the model that are decimal numbers
NumericTexts == {TextZero, TextThreeTwo, TextFive}

NonNumeric(child) ==
    child.tag = "empty" \/ (child.tag = "text" /\ child.text \notin NumericTexts)

\* a video element without a query, start or end child, or with a start or
\* end that is not a number
BadVideo(v) ==
    \/ v.query.tag = "absent" \/ v.start.tag = "absent" \/ v.end.tag = "absent"
    \/ NonNumeric(v.start) \/ NonNumeric(v.end)

\* a video element with a query string and numeric start and end
GoodVideo(v) ==
    /\ v.query.tag = "text"
    /\ v.start.tag = "text" /\ v.start.text \in NumericTexts
    /\ v.end.tag = "text" /\ v.end.text \in NumericTexts

VideoIndexes(output) == { i \in 1..Len(output) : output[i].kind = "video" }

\* the segments are sorted, non-empty, adjacent, and run from T_start to T_end
Tiles(segs, sp) ==
    /\ segs # <<>>
    /\ \A i \in 1..Len(segs) : segs[i].start_time < segs[i].end_time
    /\ segs[1].start_time = sp[1]
    /\ segs[Len(segs)].end_time = sp[2]
    /\ \A i \in 1..(Len(segs) - 1) : segs[i].end_time = segs[i + 1].start_time

\* C2: the list handed on by get_video_suggestions, for suggestions that each
\* have start_time < end_time, is sorted, non-overlapping and covers exactly
\* the timeline span [T_start, T_end).
C2_ListTilesSpan ==
    (/\ stage = "returned"
     /\ suggestions # <<>>
     /\ \A i \in 1..Len(suggestions) :
           suggestions[i].start_time < suggestions[i].end_time)
        => Tiles(suggestions, span)

\* C4: when a video element of the agent output lacks query, start or end,
\* or has a non-numeric start or end, no list is returned, whatever elements
\* precede or follow it; the error reaches the caller.
C4_BadElementNeverReturns ==
    (\E i \in VideoIndexes(llm_output) : BadVideo(llm_output[i]))
        => (stage # "returned" /\ suggestions = <<>>)

\* the parse failed on an output whose first element is well formed and whose
\* second element is not
C4_Witness ==
    /\ stage = "raised"
    /\ error = "Error parsing video suggestions"
    /\ Len(llm_output) = 2
    /\ llm_output[1].kind = "video" /\ GoodVideo(llm_output[1])
    /\ llm_output[2].kind = "video" /\ BadVideo(llm_output[2])

\* C5: an agent output without any video element is a format error; the
\* function does not return normally with an empty list.
C5_NoElementIsError ==
    ~(stage = "returned" /\ VideoIndexes(llm_output) = {})

\* the number a numeric field text stands for, in tenths
NumericValue(chars) ==
    IF chars = TextZero THEN 0 ELSE IF chars = TextThreeTwo THEN 32 ELSE 50

RECURSIVE ExpectedSuggestions(_)
ExpectedSuggestions(output) ==
    IF output = <<>> THEN <<>>
    ELSE IF Head(output).kind = "video"
         THEN <<[keywords |-> Head(output).query.text,
                 start_time |-> NumericValue(Head(output).start.text),
                 end_time |-> NumericValue(Head(output).end.text)]>>
                 \o ExpectedSuggestions(Tail(output))
         ELSE ExpectedSuggestions(Tail(output))

\* C6: for an agent output of n well-formed video elements with any free text
\* around them, exactly the n suggestions are returned, in order, with the
\* query string and the numeric start and end of each element.
C6_FreeTextTolerated ==
    (/\ stage \in {"returned", "raised"}
     /\ llm_calls = 1 /\ error # "Error making OpenAI request"
     /\ \A i \in VideoIndexes(llm_output) : GoodVideo(llm_output[i]))
        => (stage = "returned" /\ suggestions = ExpectedSuggestions(llm_output))

\* C14: the model is called exactly once, before the parse; it is not called
\* again after a failure; when the call or the parse fails the function
\* raises and returns no suggestion list, and a returned list is the parse of
\* the completed model output.
C14_OneCallThenParse ==
    /\ stage = "prompt" => llm_calls = 0
    /\ stage \in {"parse", "returned", "raised"} => llm_calls = 1
    /\ stage = "raised" => (error # "" /\ suggestions = <<>>)
    /\ stage = "returned" =>
          /\ error = ""
          /\ parse_video_suggestions(llm_output).exc = ""
          /\ suggestions = parse_video_suggestions(llm_output).suggestions
    /\ (stage \in {"returned", "raised"} /\ error # "Error making OpenAI request"
          /\ parse_video_suggestions(llm_output).exc # "")
          => stage = "raised"

\* the model call failed and the function raised after that single call
C14_Witness ==
    /\ stage = "raised"
    /\ error = "Error making OpenAI request"
    /\ llm_calls = 1
    /\ suggestions = <<>>

(***************************************************************************)
(* Claims on the downloads                                                 *)
(***************************************************************************)
\* C8: when the file of the derived name exists already, the operation issues
\* no download request and returns the path of the existing file.
C8_ExistingFileNotDownloaded ==
    last.existed => (last.downloads = 0 /\ last.ret = last.path)

\* C9: download_video returns a path only when the download succeeded, never
\* the path of a file that was not written.
C9_PathOnlyWhenDownloaded ==
    (last.op = "video" /\ last.ret # NoPath)
        => (last.outcome = "ok" /\ disk[last.ret] = "complete")

(***************************************************************************)
(* Claims on select_video                                                  *)
(***************************************************************************)
QualifyingIndexes ==
    { i \in 1..Len(sv_videos) :
        sv_duration = None \/ sv_videos[i].duration >= sv_duration }

QualifyingIds == { sv_videos[i].id : i \in QualifyingIndexes }

\* C10: with a valid selection_method, select_video returns the id of a
\* result that satisfies the duration constraint, or None when there is none
\* ('best': the first such result); it does not raise when nothing matches.
C10_ReturnsIdOrNone ==
    (/\ sv_pc # "call"
     /\ sv_error # "HTTPError"
     /\ sv_method \in {"best", "random", "offset"}
     /\ sv_method = "offset" => sv_offset # None)
        => /\ sv_pc = "returned"
           /\ sv_ret \in QualifyingIds \cup {None}
           /\ QualifyingIds = {} => sv_ret = None
           /\ (sv_method = "best" /\ QualifyingIds # {}) =>
                 sv_ret = sv_videos[CHOOSE i \in QualifyingIndexes :
                                       \A j \in QualifyingIndexes : i <= j].id

====
